---- MODULE Spec2Model ----
(***************************************************************************)
(* Virtual folders of Pootle: the path-pattern builder, the folder matcher,*)
(* the location expander (virtualfolder/models.py) and the add_vfolders    *)
(* bulk importer (management/commands/add_vfolders.py).                    *)
(*                                                                         *)
(* Python strings are TLA+ strings; Python lists are sequences.  The str   *)
(* methods and the part of the re module the code uses are modelled below  *)
(* by what they compute, character by character.                           *)
(***************************************************************************)
EXTENDS Integers, Sequences, FiniteSets, TLC

(***************************************************************************)
(* Python str methods                                                      *)
(***************************************************************************)

\* s[i-1] of Python (1-based here); "" outside the string.
CharAt(s, i) == IF i \in 1..Len(s) THEN SubSeq(s, i, i) ELSE ""

SetMin(S) == CHOOSE x \in S : \A y \in S : x <= y

SetMax(S) == CHOOSE x \in S : \A y \in S : x >= y

\* s[i-1:] of Python.
StrFrom(s, i) == IF i > Len(s) THEN "" ELSE SubSeq(s, i, Len(s))

\* s[:n] of Python.
StrTake(s, n) == IF n <= 0 THEN "" ELSE SubSeq(s, 1, IF n < Len(s) THEN n ELSE Len(s))

\* s.count(c) for a one-character c.
count(s, c) == Cardinality({i \in 1..Len(s) : CharAt(s, i) = c})

\* s.strip(c) for a one-character c.
strip(s, c) ==
    LET keep == {i \in 1..Len(s) : CharAt(s, i) # c}
    IN  IF keep = {} THEN "" ELSE SubSeq(s, SetMin(keep), SetMax(keep))

\* s.startswith(prefix)
startswith(s, prefix) ==
    /\ Len(prefix) <= Len(s)
    /\ StrTake(s, Len(prefix)) = prefix

\* sub in s
contains(s, sub) ==
    \E i \in 1..(Len(s) + 1) :
        /\ i + Len(sub) - 1 <= Len(s)
        /\ startswith(StrFrom(s, i), sub)

\* s.split(c) for a one-character c: always at least one piece.
RECURSIVE split(_, _)
split(s, c) ==
    LET seps == {i \in 1..Len(s) : CharAt(s, i) = c}
    IN  IF seps = {} THEN <<s>>
        ELSE LET i == SetMin(seps)
             IN  <<StrTake(s, i - 1)>> \o split(StrFrom(s, i + 1), c)

\* sep.join(parts)
RECURSIVE join(_, _)
join(sep, parts) ==
    IF Len(parts) = 0 THEN ""
    ELSE IF Len(parts) = 1 THEN parts[1]
    ELSE parts[1] \o sep \o join(sep, Tail(parts))

\* "".join(parts)
concat(parts) == join("", parts)

\* s.replace(old, new): every non-overlapping occurrence, left to right.
RECURSIVE replace(_, _, _)
replace(s, old, new) ==
    IF Len(s) < Len(old) \/ Len(old) = 0 THEN s
    ELSE IF startswith(s, old)
         THEN new \o replace(StrFrom(s, Len(old) + 1), old, new)
         ELSE CharAt(s, 1) \o replace(StrFrom(s, 2), old, new)

UpperLetters == "ABCDEFGHIJKLMNOPQRSTUVWXYZ"

LowerLetters == "abcdefghijklmnopqrstuvwxyz"

LowerChar(c) ==
    LET hit == {i \in 1..Len(UpperLetters) : CharAt(UpperLetters, i) = c}
    IN  IF hit = {} THEN c ELSE CharAt(LowerLetters, SetMin(hit))

\* s.lower()
RECURSIVE lower(_)
lower(s) ==
    IF Len(s) = 0 THEN "" ELSE LowerChar(CharAt(s, 1)) \o lower(StrFrom(s, 2))

\* Body(value) with value computed once, as a Python local variable is.
Local(value, Body(_)) == CHOOSE r \in {Body(v) : v \in {value}} : TRUE

\* parts[:n] of a Python list.
ListTake(parts, n) ==
    IF n <= 0 THEN <<>> ELSE SubSeq(parts, 1, IF n < Len(parts) THEN n ELSE Len(parts))

(***************************************************************************)
(* The part of Python's re the patterns of pattern_for_path use: literal   *)
(* characters, backslash escapes, ".", groups, "|", "?", "^" and "$".  A   *)
(* "{" that opens no "{m,n}" quantifier is a literal, as in Python.  Each  *)
(* operator maps a set of subject positions (1 = before the first          *)
(* character) to the positions reachable by matching, and reports where    *)
(* in the pattern it stopped.                                              *)
(***************************************************************************)
RECURSIVE ReAlt(_, _, _, _)
RECURSIVE ReSeq(_, _, _, _)
RECURSIVE ReAtom(_, _, _, _)

ReLiteral(s, from, c) ==
    {k + 1 : k \in {j \in from : j <= Len(s) /\ CharAt(s, j) = c}}

ReAtom(p, i, s, from) ==
    LET c == CharAt(p, i)
        base ==
            IF c = "("
            THEN LET inner == ReAlt(p, i + 1, s, from)
                 IN  [ends |-> inner.ends, nxt |-> inner.nxt + 1]
            ELSE IF c = "\\"
            THEN [ends |-> ReLiteral(s, from, CharAt(p, i + 1)), nxt |-> i + 2]
            ELSE IF c = "."
            THEN [ends |-> {k + 1 : k \in {j \in from : j <= Len(s)
                                              /\ CharAt(s, j) # "\n"}},
                  nxt |-> i + 1]
            ELSE IF c = "^"
            THEN [ends |-> from \cap {1}, nxt |-> i + 1]
            ELSE IF c = "$"
            THEN [ends |-> {k \in from : \/ k = Len(s) + 1
                                         \/ k = Len(s) /\ CharAt(s, k) = "\n"},
                  nxt |-> i + 1]
            ELSE [ends |-> ReLiteral(s, from, c), nxt |-> i + 1]
    IN  IF CharAt(p, base.nxt) = "?"
        THEN [ends |-> base.ends \cup from, nxt |-> base.nxt + 1]
        ELSE base

ReSeq(p, i, s, from) ==
    IF i > Len(p) \/ CharAt(p, i) = "|" \/ CharAt(p, i) = ")"
    THEN [ends |-> from, nxt |-> i]
    ELSE LET a == ReAtom(p, i, s, from)
         IN  ReSeq(p, a.nxt, s, a.ends)

ReAlt(p, i, s, from) ==
    LET first == ReSeq(p, i, s, from)
    IN  IF CharAt(p, first.nxt) = "|"
        THEN LET rest == ReAlt(p, first.nxt + 1, s, from)
             IN  [ends |-> first.ends \cup rest.ends, nxt |-> rest.nxt]
        ELSE first

\* The subject positions at which a match of p that starts at the beginning
\* of s can end.
ReMatchEnds(p, s) == ReAlt(p, 1, s, {1}).ends

\* re.compile(p).match(s) is not None
re_match(p, s) == ReMatchEnds(p, s) # {}

(***************************************************************************)
(* virtualfolder/models.py: pattern_for_path                               *)
(***************************************************************************)
RECURSIVE pattern_for_sublist(_)
pattern_for_sublist(sublist) ==
    IF Len(sublist) = 1
    THEN concat(<<"(/", sublist[1], ")?">>)
    ELSE concat(<<"(/", sublist[1], pattern_for_sublist(Tail(sublist)), ")?">>)

\* A builder that leaves the pattern open at its end: no "$".
pattern_for_path_open(pootle_path) ==
    LET items == split(strip(pootle_path, "/"), "/")
        str_list1 == <<"^/((", items[1], "|\\{LANG\\}|projects)">>
        str_list2 ==
            IF Len(items) > 1
            THEN str_list1
                 \o <<"|((", items[1], "|\\{LANG\\}|projects)(/(", items[2], "|{PROJ})">>
                 \o (IF Len(items) > 2
                     THEN <<pattern_for_sublist(SubSeq(items, 3, Len(items)))>>
                     ELSE <<>>)
                 \o <<")?)">>
            ELSE str_list1
    IN  concat(str_list2 \o <<")/">>)

pattern_for_path(pootle_path) ==
    LET items == split(strip(pootle_path, "/"), "/")
        str_list1 == <<"^/((", items[1], "|\\{LANG\\}|projects)">>
        str_list2 ==
            IF Len(items) > 1
            THEN str_list1
                 \o <<"|((", items[1], "|\\{LANG\\}|projects)(/(", items[2], "|{PROJ})">>
                 \o (IF Len(items) > 2
                     THEN <<pattern_for_sublist(SubSeq(items, 3, Len(items)))>>
                     ELSE <<>>)
                 \o <<")?)">>
            ELSE str_list1
    IN  concat(str_list2 \o <<")/$">>)

(***************************************************************************)
(* State.  The tables of the database (the ORM is an external              *)
(* collaborator: a table is a sequence of rows, the index being the        *)
(* primary key), the file the importer is pointed at, and what the last    *)
(* operation returned.                                                     *)
(***************************************************************************)
VARIABLES
    vfolders,     \* VirtualFolder rows: name, location, filter_rules, priority,
                  \* is_browsable, description
    vf_units,     \* VirtualFolder.units: per row, the set of associated units
    languages,    \* Language.objects.all(): the language codes
    projects,     \* Project.objects.all(): the project codes
    stores,       \* Store rows: pootle_path and the store's units
    input_file,   \* the file named by --filename, as the command finds it
    synced,       \* the command completed on input_file as it is now
    run,          \* outcome of the last add_vfolders run on input_file
    q,            \* the last query on the model layer and what it gave
    rq,           \* the job queue test_redis finds: settings, Redis, workers
    saving        \* the VirtualFolder.save() in progress and how far it is

vars ==
    <<vfolders, vf_units, languages, projects, stores, input_file, synced, run, q,
      rq, saving>>

db == <<vfolders, vf_units>>

world == <<languages, projects, stores>>

(***************************************************************************)
(* virtualfolder/models.py: VirtualFolder                                  *)
(***************************************************************************)

\* Field defaults of the model (priority default=1, is_browsable
\* default=False, description blank).
DefaultPriority == 1

DefaultIsBrowsable == FALSE

DefaultDescription == ""

\* Store.objects.filter(pootle_path=vf_file)
StoresAt(vf_file) == {s \in stores : s.pootle_path = vf_file}

RECURSIVE Flatten(_)
Flatten(lists) ==
    IF Len(lists) = 0 THEN <<>> ELSE Head(lists) \o Flatten(Tail(lists))

\* An expansion with the loops exchanged: projects outside, languages inside.
get_all_pootle_paths_swapped(self) ==
    IF contains(self.location, "{LANG}") /\ contains(self.location, "{PROJ}")
    THEN Flatten([p \in 1..Len(projects) |->
             LET temp == replace(self.location, "{PROJ}", projects[p])
             IN  [l \in 1..Len(languages) |-> replace(temp, "{LANG}", languages[l])]])
    ELSE IF contains(self.location, "{LANG}")
    THEN [l \in 1..Len(languages) |-> replace(self.location, "{LANG}", languages[l])]
    ELSE IF contains(self.location, "{PROJ}")
    THEN [p \in 1..Len(projects) |-> replace(self.location, "{PROJ}", projects[p])]
    ELSE <<self.location>>

get_all_pootle_paths(self) ==
    IF contains(self.location, "{LANG}") /\ contains(self.location, "{PROJ}")
    THEN Flatten([l \in 1..Len(languages) |->
             LET temp == replace(self.location, "{LANG}", languages[l])
             IN  [p \in 1..Len(projects) |-> replace(temp, "{PROJ}", projects[p])]])
    ELSE IF contains(self.location, "{LANG}")
    THEN [l \in 1..Len(languages) |-> replace(self.location, "{LANG}", languages[l])]
    ELSE IF contains(self.location, "{PROJ}")
    THEN [p \in 1..Len(projects) |-> replace(self.location, "{PROJ}", projects[p])]
    ELSE <<self.location>>

\* The units of qs[0] when qs = Store.objects.filter(pootle_path=vf_file)
\* exists, none otherwise.
FirstStoreUnits(vf_file) ==
    IF StoresAt(vf_file) # {} THEN (CHOOSE s \in StoresAt(vf_file) : TRUE).units ELSE {}

\* The units save() associates again after units.clear(): for each location
\* and each filename, the units of the first store at location + filename.
RebuiltUnits(self) ==
    IF self.is_browsable
    THEN Local(get_all_pootle_paths(self), LAMBDA locations :
         Local(split(self.filter_rules, ","), LAMBDA filenames :
             UNION { FirstStoreUnits(concat(<<locations[lf[1]], filenames[lf[2]]>>))
                     : lf \in (1..Len(locations)) \X (1..Len(filenames)) }))
    ELSE {}

\* A save() that forgets self.units.clear().
units_kept(old_units) == old_units

\* self.units.clear()
units_clear(old_units) == {}

\* VirtualFolder.save() of the row with primary key pk (pk = Len + 1 inserts)
\* on the tables t = [rows, units]: write the row, clear its units, rebuild.
save(t, pk, self) ==
    LET rows == IF pk > Len(t.rows) THEN Append(t.rows, self)
                ELSE [t.rows EXCEPT ![pk] = self]
        before == IF pk > Len(t.units) THEN {} ELSE t.units[pk]
        after == units_clear(before) \cup RebuiltUnits(self)
    IN  [rows |-> rows,
         units |-> IF pk > Len(t.units) THEN Append(t.units, after)
                   ELSE [t.units EXCEPT ![pk] = after]]

\* Meta.ordering is -priority, then name: the character order for names
\* (the characters virtual folder names are written with).
CharTable ==
    " -./0123456789@ABCDEFGHIJKLMNOPQRSTUVWXYZ_abcdefghijklmnopqrstuvwxyz"

CharOrd(c) ==
    LET hit == {i \in 1..Len(CharTable) : CharAt(CharTable, i) = c}
    IN  IF hit = {} THEN 0 ELSE SetMin(hit)

RECURSIVE StrLess(_, _)
StrLess(a, b) ==
    IF Len(b) = 0 THEN FALSE
    ELSE IF Len(a) = 0 THEN TRUE
    ELSE IF CharAt(a, 1) = CharAt(b, 1) THEN StrLess(StrFrom(a, 2), StrFrom(b, 2))
    ELSE CharOrd(CharAt(a, 1)) < CharOrd(CharAt(b, 1))

\* Row a is ordered strictly before row b by Meta.ordering.
MetaBefore(a, b) ==
    \/ a.priority > b.priority
    \/ a.priority = b.priority /\ StrLess(a.name, b.name)

\* The orders in which a queryset over the rows pks may come back: sorted by
\* Meta.ordering, rows the ordering does not separate in any order.
Orderings(pks) ==
    {o \in [1..Cardinality(pks) -> pks] :
        /\ \A i, j \in 1..Cardinality(pks) : i # j => o[i] # o[j]
        /\ \A i, j \in 1..Cardinality(pks) :
               i < j => ~MetaBefore(vfolders[o[j]], vfolders[o[i]])}

\* VirtualFolder.objects.filter(is_browsable=True), as primary keys.
BrowsablePks == {pk \in 1..Len(vfolders) : vfolders[pk].is_browsable}

\* get_applicable_for, given the order the queryset came back in.
RECURSIVE FilterSeq(_, _)
FilterSeq(seq, vf_re) ==
    IF Len(seq) = 0 THEN <<>>
    ELSE (IF re_match(vf_re, vfolders[Head(seq)].location) THEN <<Head(seq)>> ELSE <<>>)
         \o FilterSeq(Tail(seq), vf_re)

get_applicable_for(order, pootle_path) ==
    LET vf_re == pattern_for_path(pootle_path)
    IN  FilterSeq(order, vf_re)

\* An adjustment without the comparison of the slash counts.
get_adjusted_location_nocount(self, pootle_path) ==
    LET cnt == count(self.location, "/")
        pootle_path_parts == split(strip(pootle_path, "/"), "/")
        location_parts == split(strip(self.location, "/"), "/")
        Raise == [exc |-> "Exception", value |-> ""]
        Return == [exc |-> "none",
                   value |-> join("/", ListTake(split(pootle_path, "/"), cnt))]
    IN  IF /\ location_parts[1] # pootle_path_parts[1]
           /\ location_parts[1] # "{LANG}"
        THEN Raise
        ELSE IF Len(location_parts) < 2 \/ Len(pootle_path_parts) < 2 THEN Return
        ELSE IF /\ location_parts[2] # pootle_path_parts[2]
                /\ location_parts[2] # "{PROJ}"
        THEN Raise
        ELSE Return

\* An adjustment whose validation stops after the first segment.
get_adjusted_location_nosecond(self, pootle_path) ==
    LET cnt == count(self.location, "/")
        pootle_path_parts == split(strip(pootle_path, "/"), "/")
        location_parts == split(strip(self.location, "/"), "/")
        Raise == [exc |-> "Exception", value |-> ""]
        Return == [exc |-> "none",
                   value |-> join("/", ListTake(split(pootle_path, "/"), cnt))]
    IN  IF count(pootle_path, "/") < cnt THEN Raise
        ELSE IF /\ location_parts[1] # pootle_path_parts[1]
                /\ location_parts[1] # "{LANG}"
        THEN Raise
        ELSE Return

\* get_adjusted_location: [exc, value]; exc is "Exception" when it raises.
get_adjusted_location(self, pootle_path) ==
    LET cnt == count(self.location, "/")
        pootle_path_parts == split(strip(pootle_path, "/"), "/")
        location_parts == split(strip(self.location, "/"), "/")
        Raise == [exc |-> "Exception", value |-> ""]
        Return == [exc |-> "none",
                   value |-> join("/", ListTake(split(pootle_path, "/"), cnt))]
    IN  IF count(pootle_path, "/") < cnt THEN Raise
        ELSE IF /\ location_parts[1] # pootle_path_parts[1]
                /\ location_parts[1] # "{LANG}"
        THEN Raise
        \* location_parts[1] or pootle_path_parts[1] of Python: IndexError, pass
        ELSE IF Len(location_parts) < 2 \/ Len(pootle_path_parts) < 2 THEN Return
        ELSE IF /\ location_parts[2] # pootle_path_parts[2]
                /\ location_parts[2] # "{PROJ}"
        THEN Raise
        ELSE Return

\* Whether a filename of the filter rules, from the f-th on, matches: the
\* inner loop of get_matching_for up to its break.
RECURSIVE AnyFileMatches(_, _, _)
AnyFileMatches(filenames, location, pootle_path) ==
    IF Len(filenames) = 0 THEN FALSE
    ELSE LET vf_file == join("/", <<location, Head(filenames)>>)
         IN  IF startswith(vf_file, pootle_path) /\ StoresAt(vf_file) # {}
             THEN TRUE
             ELSE AnyFileMatches(Tail(filenames), location, pootle_path)

\* The outer loop of get_matching_for over the applicable folders.
RECURSIVE MatchingLoop(_, _, _)
MatchingLoop(applicable, matching, pootle_path) ==
    IF Len(applicable) = 0 THEN [exc |-> "none", value |-> matching]
    ELSE LET vf == vfolders[Head(applicable)]
             location == get_adjusted_location(vf, pootle_path)
         IN  IF location.exc # "none" THEN [exc |-> location.exc, value |-> <<>>]
             ELSE MatchingLoop(
                      Tail(applicable),
                      IF AnyFileMatches(split(vf.filter_rules, ","), location.value,
                                        pootle_path)
                      THEN Append(matching, Head(applicable)) ELSE matching,
                      pootle_path)

get_matching_for(order, pootle_path) ==
    MatchingLoop(get_applicable_for(order, pootle_path), <<>>, pootle_path)

(***************************************************************************)
(* virtualfolder/management/commands/add_vfolders.py: Command.handle       *)
(***************************************************************************)

\* key in vfolder_item
HasKey(item, key) == key \in DOMAIN item

\* What open() and json.load() raise: an IOError carries strerror, the
\* ValueError of the JSON decoder carries only a message.
OpenError == [type |-> "IOError", strerror |-> "No such file or directory"]

DecodeError == [type |-> "ValueError", message |-> "No JSON object could be decoded"]

\* The except clause of handle: CommandError built from e.strerror; reading
\* an attribute the exception does not have raises AttributeError instead.
FileError(e) ==
    IF HasKey(e, "strerror")
    THEN [exc |-> "CommandError",
          message |-> "Some error occurred while handling the file: " \o e.strerror]
    ELSE [exc |-> "AttributeError",
          message |-> "'ValueError' object has no attribute 'strerror'"]

\* vfolder_item['name'] = vfolder_item['name'].lower()
item_name(vfolder_item) == lower(vfolder_item.name)

\* A lookup by the name as written in the file.
lookup_name_raw(vfolder_item) == vfolder_item.name

\* The name VirtualFolder.objects.get() is asked for: the lowered one.
lookup_name(vfolder_item) == item_name(vfolder_item)

\* vfolder_item['filter_rules']
item_filter_rules(vfolder_item) ==
    IF HasKey(vfolder_item, "files") THEN join(",", vfolder_item.files) ELSE ""

\* A constructor that is handed only the name, location and filter rules.
NewVirtualFolder_defaults(vfolder_item) ==
    [name |-> item_name(vfolder_item),
     location |-> vfolder_item.location,
     filter_rules |-> item_filter_rules(vfolder_item),
     priority |-> DefaultPriority,
     is_browsable |-> DefaultIsBrowsable,
     description |-> DefaultDescription]

\* VirtualFolder(**vfolder_item): the keys given, the model's defaults else.
NewVirtualFolder(vfolder_item) ==
    [name |-> item_name(vfolder_item),
     location |-> vfolder_item.location,
     filter_rules |-> item_filter_rules(vfolder_item),
     priority |-> IF HasKey(vfolder_item, "priority")
                  THEN vfolder_item.priority ELSE DefaultPriority,
     is_browsable |-> IF HasKey(vfolder_item, "is_browsable")
                      THEN vfolder_item.is_browsable ELSE DefaultIsBrowsable,
     description |-> IF HasKey(vfolder_item, "description")
                     THEN vfolder_item.description ELSE DefaultDescription]

\* An else branch whose priority test forgets changed = True.
UpdatedFields_noflag(vfolder, vfolder_item) ==
    LET c1 == vfolder.filter_rules # item_filter_rules(vfolder_item)
        c2 == /\ HasKey(vfolder_item, "priority")
              /\ vfolder.priority # vfolder_item.priority
        c3 == /\ HasKey(vfolder_item, "is_browsable")
              /\ vfolder.is_browsable # vfolder_item.is_browsable
        c4 == /\ HasKey(vfolder_item, "description")
              /\ vfolder.description # vfolder_item.description
    IN  [changed |-> c1 \/ c3 \/ c4,
         vfolder |->
            [vfolder EXCEPT
                !.filter_rules = IF c1 THEN item_filter_rules(vfolder_item) ELSE @,
                !.priority = IF c2 THEN vfolder_item.priority ELSE @,
                !.is_browsable = IF c3 THEN vfolder_item.is_browsable ELSE @,
                !.description = IF c4 THEN vfolder_item.description ELSE @],
         log |-> (IF c1 THEN <<[what |-> "filter_rules", name |-> vfolder.name]>> ELSE <<>>)
                 \o (IF c2 THEN <<[what |-> "priority", name |-> vfolder.name]>> ELSE <<>>)
                 \o (IF c3 THEN <<[what |-> "is_browsable", name |-> vfolder.name]>> ELSE <<>>)
                 \o (IF c4 THEN <<[what |-> "description", name |-> vfolder.name]>> ELSE <<>>)]

\* The else branch of handle: the fields that differ are overwritten, and
\* each change is logged.
UpdatedFields(vfolder, vfolder_item) ==
    LET c1 == vfolder.filter_rules # item_filter_rules(vfolder_item)
        c2 == /\ HasKey(vfolder_item, "priority")
              /\ vfolder.priority # vfolder_item.priority
        c3 == /\ HasKey(vfolder_item, "is_browsable")
              /\ vfolder.is_browsable # vfolder_item.is_browsable
        c4 == /\ HasKey(vfolder_item, "description")
              /\ vfolder.description # vfolder_item.description
    IN  [changed |-> c1 \/ c2 \/ c3 \/ c4,
         vfolder |->
            [vfolder EXCEPT
                !.filter_rules = IF c1 THEN item_filter_rules(vfolder_item) ELSE @,
                !.priority = IF c2 THEN vfolder_item.priority ELSE @,
                !.is_browsable = IF c3 THEN vfolder_item.is_browsable ELSE @,
                !.description = IF c4 THEN vfolder_item.description ELSE @],
         log |-> (IF c1 THEN <<[what |-> "filter_rules", name |-> vfolder.name]>> ELSE <<>>)
                 \o (IF c2 THEN <<[what |-> "priority", name |-> vfolder.name]>> ELSE <<>>)
                 \o (IF c3 THEN <<[what |-> "is_browsable", name |-> vfolder.name]>> ELSE <<>>)
                 \o (IF c4 THEN <<[what |-> "description", name |-> vfolder.name]>> ELSE <<>>)]

\* One pass of the for loop of handle over vfolder_item, on
\* st = [rows, units, added_count, updated_count, log, exc].
HandleItem(st, vfolder_item) ==
    IF ~HasKey(vfolder_item, "name") \/ ~HasKey(vfolder_item, "location")
    THEN [st EXCEPT !.exc = "KeyError"]
    ELSE
    LET found == {pk \in 1..Len(st.rows) :
                     /\ st.rows[pk].name = lookup_name(vfolder_item)
                     /\ st.rows[pk].location = vfolder_item.location}
    IN  IF Cardinality(found) > 1
        THEN [st EXCEPT !.exc = "MultipleObjectsReturned"]
        ELSE IF found = {}
        THEN \* VirtualFolder.DoesNotExist: create it.
             LET t == save([rows |-> st.rows, units |-> st.units],
                           Len(st.rows) + 1, NewVirtualFolder(vfolder_item))
             IN  [st EXCEPT !.rows = t.rows, !.units = t.units,
                            !.added_count = @ + 1]
        ELSE LET pk == CHOOSE k \in found : TRUE
                 u == UpdatedFields(st.rows[pk], vfolder_item)
             IN  IF u.changed
                 THEN LET t == save([rows |-> st.rows, units |-> st.units],
                                    pk, u.vfolder)
                      IN  [st EXCEPT !.rows = t.rows, !.units = t.units,
                                     !.updated_count = @ + 1,
                                     !.log = @ \o u.log]
                 ELSE st

\* A loop that goes on to the next entry after an entry raised.
RECURSIVE HandleLoop_continue(_, _)
HandleLoop_continue(st, vfolders_list) ==
    IF Len(vfolders_list) = 0 THEN st
    ELSE Local(HandleItem(st, Head(vfolders_list)),
               LAMBDA next_st : HandleLoop_continue(next_st, Tail(vfolders_list)))

\* The for loop of handle: an exception raised by an entry ends it.
RECURSIVE HandleLoop(_, _)
HandleLoop(st, vfolders_list) ==
    IF Len(vfolders_list) = 0 \/ st.exc # "none" THEN st
    ELSE Local(HandleItem(st, Head(vfolders_list)),
               LAMBDA next_st : HandleLoop(next_st, Tail(vfolders_list)))

\* What handle leaves and reports once the loop is over: the counts when it
\* ran to its end, nothing when an exception ended it.
Report(st, n_items) ==
    IF st.exc # "none"
    THEN [rows |-> st.rows, units |-> st.units, exc |-> st.exc,
          message |-> "", reported |-> FALSE,
          added_count |-> 0, updated_count |-> 0, unchanged_count |-> 0,
          log |-> st.log]
    ELSE [rows |-> st.rows, units |-> st.units, exc |-> "none",
          message |-> "", reported |-> TRUE,
          added_count |-> st.added_count,
          updated_count |-> st.updated_count,
          unchanged_count |-> n_items - st.added_count - st.updated_count,
          log |-> st.log]

\* What handle leaves when reading the file fails.
Failed(t, err) ==
    [rows |-> t.rows, units |-> t.units, exc |-> err.exc,
     message |-> err.message, reported |-> FALSE,
     added_count |-> 0, updated_count |-> 0, unchanged_count |-> 0,
     log |-> <<>>]

\* Command.handle on the file as found, from the tables t = [rows, units]:
\* the tables it leaves and what it reports.
handle(file, t) ==
    IF file.kind # "json"
    THEN Failed(t, FileError(IF file.kind = "missing" THEN OpenError ELSE DecodeError))
    ELSE Report(HandleLoop([rows |-> t.rows, units |-> t.units,
                            added_count |-> 0, updated_count |-> 0,
                            log |-> <<>>, exc |-> "none"], file.entries),
                Len(file.entries))

(***************************************************************************)
(* The world the importer runs in, and its inputs                          *)
(***************************************************************************)

\* Entries per input file.
MaxEntries == 2

AllLanguages == <<"en", "fr", "de">>

AllProjects == <<"firefox", "tb", "v1.0">>

\* The stores of the installation and their units.
AllStores ==
    { [pootle_path |-> "/en/firefox/file1.po", units |-> {1, 2}],
      [pootle_path |-> "/fr/firefox/file2.po", units |-> {3}],
      [pootle_path |-> "/en/tb/file2.po", units |-> {4}],
      [pootle_path |-> "/fr/tb/file3.po", units |-> {5}] }

Files12 == <<"file1.po", "file2.po">>

\* The entries input files are written with; the last two lack a required key.
Entries ==
    { [name |-> "vf", location |-> "/{LANG}/firefox/", files |-> Files12,
       is_browsable |-> TRUE, description |-> "d", priority |-> 1],
      [name |-> "Vf", location |-> "/{LANG}/firefox/", files |-> Files12,
       is_browsable |-> TRUE, description |-> "d", priority |-> 2],
      [name |-> "vf", location |-> "/{LANG}/firefox/", files |-> <<"file1.po">>],
      [name |-> "vf", location |-> "/{LANG}/firefox/"],
      [name |-> "vf", location |-> "/{LANG}/firefox/", files |-> Files12,
       is_browsable |-> FALSE, description |-> "e"],
      [name |-> "vf", location |-> "/{LANG}/{PROJ}/", files |-> <<"file2.po", "file3.po">>,
       is_browsable |-> TRUE],
      [location |-> "/{LANG}/firefox/", files |-> Files12],
      [name |-> "vf"] }

NoRun ==
    [exc |-> "none", message |-> "", reported |-> FALSE, added_count |-> 0,
     updated_count |-> 0, unchanged_count |-> 0, log |-> <<>>, rerun |-> FALSE,
     ran |-> FALSE]

NoQuery == [op |-> "none"]

\* queue.connection.connection_pool.connection_kwargs of a TCP connection.
TcpSettings == [host |-> "localhost", port |-> "6379"]

\* A configured queue on a reachable Redis with no worker registered.
IdleQueue ==
    [configured |-> TRUE, up |-> TRUE, conn_settings |-> TcpSettings, workers |-> <<>>]

\* No save() is in progress.
NoSave == [pc |-> "done"]

(***************************************************************************)
(* The importer: the file is edited between runs of the command            *)
(***************************************************************************)
Init ==
    /\ vfolders = <<>>
    /\ vf_units = <<>>
    /\ languages = SubSeq(AllLanguages, 1, 2)
    /\ projects = SubSeq(AllProjects, 1, 2)
    /\ stores = AllStores
    /\ input_file = [kind |-> "missing", entries |-> <<>>]
    /\ synced = FALSE
    /\ run = NoRun
    /\ q = NoQuery
    /\ rq = IdleQueue
    /\ saving = NoSave

\* manage.py add_vfolders --filename input_file
Handle ==
    /\ \E r \in {handle(input_file, [rows |-> vfolders, units |-> vf_units])} :
           /\ vfolders' = r.rows
           /\ vf_units' = r.units
           /\ run' = [exc |-> r.exc, message |-> r.message, reported |-> r.reported,
                      added_count |-> r.added_count,
                      updated_count |-> r.updated_count,
                      unchanged_count |-> r.unchanged_count,
                      log |-> r.log, rerun |-> synced, ran |-> TRUE]
           /\ synced' = (r.exc = "none")
    /\ UNCHANGED <<world, input_file, q, rq, saving>>

\* The administrator writes one more entry to the file.
AppendEntry ==
    /\ input_file.kind = "json"
    /\ Len(input_file.entries) < MaxEntries
    /\ \E e \in Entries :
           input_file' = [input_file EXCEPT !.entries = Append(@, e)]
    /\ synced' = FALSE
    /\ run' = NoRun
    /\ UNCHANGED <<db, world, q, rq, saving>>

\* The administrator starts the file over: an empty JSON list.
NewFile ==
    /\ input_file' = [kind |-> "json", entries |-> <<>>]
    /\ input_file' # input_file
    /\ synced' = FALSE
    /\ run' = NoRun
    /\ UNCHANGED <<db, world, q, rq, saving>>

\* The file is removed, or overwritten with something that is not JSON.
BreakFile ==
    /\ \E k \in {"missing", "invalid"} :
           /\ input_file' = [kind |-> k, entries |-> <<>>]
           /\ input_file' # input_file
    /\ synced' = FALSE
    /\ run' = NoRun
    /\ UNCHANGED <<db, world, q, rq, saving>>

Next == Handle \/ AppendEntry \/ NewFile \/ BreakFile

Spec == Init /\ [][Next]_vars
(***************************************************************************)
(* The model layer queried on an installation: some languages, some        *)
(* projects, their stores, and virtual folders that were saved             *)
(***************************************************************************)

\* Languages, projects and virtual folders of the installation.
MaxLangs == 2

MaxProjs == 2

MaxFolders == 3

Least(a, b) == IF a < b THEN a ELSE b

\* The rows virtual folders are saved from, each with its own (name, location).
FolderRows ==
    << [name |-> "vf1", location |-> "/{LANG}/firefox/",
        filter_rules |-> "file1.po,file2.po", priority |-> 1,
        is_browsable |-> TRUE, description |-> ""],
       [name |-> "vf2", location |-> "/projects/firefox/",
        filter_rules |-> "file1.po", priority |-> 1,
        is_browsable |-> TRUE, description |-> ""],
       [name |-> "vf3", location |-> "/{LANG}/{PROJ}/",
        filter_rules |-> "file2.po,file3.po", priority |-> 2,
        is_browsable |-> TRUE, description |-> ""],
       [name |-> "vf4", location |-> "/en/{PROJ}/",
        filter_rules |-> "file2.po", priority |-> 1,
        is_browsable |-> FALSE, description |-> ""],
       [name |-> "vf1", location |-> "/en/",
        filter_rules |-> "firefox/file1.po", priority |-> 1,
        is_browsable |-> TRUE, description |-> ""],
       [name |-> "vf6", location |-> "/en/firefox/browser/",
        filter_rules |-> "file1.po", priority |-> 3,
        is_browsable |-> TRUE, description |-> ""] >>

\* The paths the model layer is queried with.
QueryPaths ==
    {"/en/firefox/", "/de/firefox/", "/fr/tb/", "/en/", "/en/firefox/browser/"}

RECURSIVE SaveAll(_, _)
SaveAll(t, rows) ==
    IF Len(rows) = 0 THEN t
    ELSE Local(save(t, Len(t.rows) + 1, Head(rows)),
               LAMBDA saved : SaveAll(saved, Tail(rows)))

\* The choices of at most MaxFolders of the rows.
RowChoices ==
    {c \in UNION {[1..n -> 1..Len(FolderRows)] : n \in 0..MaxFolders} :
        \A i, j \in DOMAIN c : i < j => c[i] < c[j]}

StoresOf(langs, projs) ==
    {s \in AllStores :
        \E l \in 1..Len(langs), p \in 1..Len(projs) :
            startswith(s.pootle_path, concat(<<"/", langs[l], "/", projs[p], "/">>))}

InitQuery ==
    /\ languages \in {SubSeq(AllLanguages, 1, n) :
                         n \in 0..Least(MaxLangs, Len(AllLanguages))}
    /\ projects \in {SubSeq(AllProjects, 1, n) :
                        n \in 0..Least(MaxProjs, Len(AllProjects))}
    /\ stores = StoresOf(languages, projects)
    /\ \E c \in RowChoices :
           \E t \in {SaveAll([rows |-> <<>>, units |-> <<>>],
                             [i \in DOMAIN c |-> FolderRows[c[i]]])} :
               /\ vfolders = t.rows
               /\ vf_units = t.units
    /\ input_file = [kind |-> "missing", entries |-> <<>>]
    /\ synced = FALSE
    /\ run = NoRun
    /\ q = NoQuery
    /\ rq = IdleQueue
    /\ saving = NoSave

\* VirtualFolder.get_applicable_for(pootle_path)
GetApplicableFor ==
    /\ q = NoQuery
    /\ \E pootle_path \in QueryPaths, order \in Orderings(BrowsablePks) :
           q' = [op |-> "get_applicable_for", pootle_path |-> pootle_path,
                 exc |-> "none",
                 result |-> get_applicable_for(order, pootle_path)]
    /\ UNCHANGED <<db, world, input_file, synced, run, rq, saving>>

\* VirtualFolder.get_matching_for(pootle_path)
GetMatchingFor ==
    /\ q = NoQuery
    /\ \E pootle_path \in QueryPaths, order \in Orderings(BrowsablePks) :
           \E r \in {get_matching_for(order, pootle_path)} :
               q' = [op |-> "get_matching_for", pootle_path |-> pootle_path,
                     exc |-> r.exc, result |-> r.value]
    /\ UNCHANGED <<db, world, input_file, synced, run, rq, saving>>

\* vfolder.get_all_pootle_paths() on a stored folder
GetAllPootlePaths ==
    /\ q = NoQuery
    /\ \E pk \in 1..Len(vfolders) :
           q' = [op |-> "get_all_pootle_paths", pk |-> pk, exc |-> "none",
                 result |-> get_all_pootle_paths(vfolders[pk])]
    /\ UNCHANGED <<db, world, input_file, synced, run, rq, saving>>

NextQuery == GetApplicableFor \/ GetMatchingFor \/ GetAllPootlePaths

SpecQuery == InitQuery /\ [][NextQuery]_vars

(***************************************************************************)
(* The pattern builder and the location adjustment on paths and locations  *)
(* of bounded depth                                                        *)
(***************************************************************************)

\* Segments per path and per location.
MaxDepth == 3

\* The segments paths are made of: a plain one and one with a dot.
PathSegments == {"gl", "v1.0"}

\* The segments locations are made of.
LocationSegments == PathSegments \cup {"{LANG}", "{PROJ}", "projects", "v1x0"}

\* "/s1/.../sn/" for the segments s1..sn.
PathOf(segments) == concat(<<"/", join("/", segments), "/">>)

PathsOver(S) ==
    {PathOf(segments) : segments \in UNION {[1..n -> S] : n \in 1..MaxDepth}}

\* A path and a location are drawn; the operations below are applied to them.
InitPure ==
    /\ vfolders = <<>>
    /\ vf_units = <<>>
    /\ languages = <<>>
    /\ projects = <<>>
    /\ stores = {}
    /\ input_file = [kind |-> "missing", entries |-> <<>>]
    /\ synced = FALSE
    /\ run = NoRun
    /\ q \in [op : {"none"}, pootle_path : PathsOver(PathSegments),
              location : PathsOver(LocationSegments)]
    /\ rq = IdleQueue
    /\ saving = NoSave

\* re.compile(pattern_for_path(pootle_path)).match(location)
PatternMatch ==
    /\ q.op = "none"
    /\ q' = [op |-> "pattern_match", pootle_path |-> q.pootle_path,
             location |-> q.location,
             matched |-> re_match(pattern_for_path(q.pootle_path), q.location)]
    /\ UNCHANGED <<db, world, input_file, synced, run, rq, saving>>

\* get_adjusted_location(pootle_path) on a folder at location
AdjustLocation ==
    /\ q.op = "none"
    /\ \E r \in {get_adjusted_location([location |-> q.location], q.pootle_path)} :
           q' = [op |-> "get_adjusted_location", pootle_path |-> q.pootle_path,
                 location |-> q.location, exc |-> r.exc, value |-> r.value]
    /\ UNCHANGED <<db, world, input_file, synced, run, rq, saving>>

NextPure == PatternMatch \/ AdjustLocation

SpecPure == InitPure /\ [][NextPure]_vars

(***************************************************************************)
(* get_adjusted_location on locations as they may be stored: the location  *)
(* field takes any text, such as a path whose closing slash was left out   *)
(***************************************************************************)

\* The segments stored locations are made of.
StoredSegments == PathSegments \cup {"{LANG}", "{PROJ}"}

\* Locations written as "/s1/.../sn/", and the same without the last slash.
StoredLocations ==
    PathsOver(StoredSegments)
        \cup {StrTake(l, Len(l) - 1) : l \in PathsOver(StoredSegments)}

InitAdjust ==
    /\ vfolders = <<>>
    /\ vf_units = <<>>
    /\ languages = <<>>
    /\ projects = <<>>
    /\ stores = {}
    /\ input_file = [kind |-> "missing", entries |-> <<>>]
    /\ synced = FALSE
    /\ run = NoRun
    /\ q \in [op : {"none"}, pootle_path : PathsOver(PathSegments),
              location : StoredLocations]
    /\ rq = IdleQueue
    /\ saving = NoSave

NextAdjust == AdjustLocation

SpecAdjust == InitAdjust /\ [][NextAdjust]_vars

(***************************************************************************)
(* VirtualFolder.save() statement by statement, with a reader of the       *)
(* tables running beside it: nothing in save() makes its queries one       *)
(* transaction                                                             *)
(***************************************************************************)

\* Rows of the virtual folder table.
MaxSaved == 2

\* The rows save() is called with.
SaveRows ==
    { FolderRows[1],
      FolderRows[3],
      [FolderRows[1] EXCEPT !.filter_rules = "file1.po"],
      [FolderRows[1] EXCEPT !.is_browsable = FALSE] }

\* super(VirtualFolder, self).save(): the row is written; a new row has no
\* units yet.
save_write(t, pk, self) ==
    [rows |-> IF pk > Len(t.rows) THEN Append(t.rows, self)
              ELSE [t.rows EXCEPT ![pk] = self],
     units |-> IF pk > Len(t.units) THEN Append(t.units, {}) ELSE t.units]

\* A save() that goes on to the rebuild without clearing.
save_clear_skipped(t, pk) == t

\* self.units.clear()
save_clear(t, pk) == [t EXCEPT !.units[pk] = units_clear(@)]

\* The vf_file values the two loops of save() go through, in their order;
\* none when the folder is not browsable.
VfFiles(self) ==
    IF self.is_browsable
    THEN Local(get_all_pootle_paths(self), LAMBDA locations :
         Local(split(self.filter_rules, ","), LAMBDA filenames :
             Flatten([l \in 1..Len(locations) |->
                         [f \in 1..Len(filenames) |->
                             concat(<<locations[l], filenames[f]>>)]])))
    ELSE <<>>

\* One pass of the inner loop: self.units.add(*qs[0].units.all()) when a
\* store is at vf_file.
save_add(t, pk, vf_file) ==
    [t EXCEPT !.units[pk] = @ \cup FirstStoreUnits(vf_file)]

InitSave ==
    /\ vfolders = <<>>
    /\ vf_units = <<>>
    /\ languages = SubSeq(AllLanguages, 1, 2)
    /\ projects = SubSeq(AllProjects, 1, 2)
    /\ stores = AllStores
    /\ input_file = [kind |-> "missing", entries |-> <<>>]
    /\ synced = FALSE
    /\ run = NoRun
    /\ q = NoQuery
    /\ rq = IdleQueue
    /\ saving = NoSave

\* save() is called on a new or a stored folder, and writes the row.
SaveWrite ==
    /\ saving.pc = "done"
    /\ \E pk \in 1..Least(Len(vfolders) + 1, MaxSaved), self \in SaveRows :
           \E t \in {save_write([rows |-> vfolders, units |-> vf_units], pk, self)} :
               /\ vfolders' = t.rows
               /\ vf_units' = t.units
               /\ saving' = [pc |-> "clear", pk |-> pk, self |-> self,
                             before |-> IF pk > Len(vf_units) THEN {}
                                        ELSE vf_units[pk],
                             todo |-> <<>>]
    /\ q' = NoQuery
    /\ UNCHANGED <<world, input_file, synced, run, rq>>

\* save() clears the units of the folder.
SaveClear ==
    /\ saving.pc = "clear"
    /\ \E t \in {save_clear([rows |-> vfolders, units |-> vf_units], saving.pk)} :
           /\ vfolders' = t.rows
           /\ vf_units' = t.units
    /\ saving' = [saving EXCEPT !.pc = "rebuild", !.todo = VfFiles(saving.self)]
    /\ UNCHANGED <<world, input_file, synced, run, q, rq>>

\* save() adds the units of the store at the next vf_file, if there is one.
SaveAdd ==
    /\ saving.pc = "rebuild"
    /\ saving.todo # <<>>
    /\ \E t \in {save_add([rows |-> vfolders, units |-> vf_units], saving.pk,
                           Head(saving.todo))} :
           /\ vfolders' = t.rows
           /\ vf_units' = t.units
    /\ saving' = [saving EXCEPT !.todo = Tail(@)]
    /\ UNCHANGED <<world, input_file, synced, run, q, rq>>

\* The loops of save() are over: it returns.
SaveReturn ==
    /\ saving.pc = "rebuild"
    /\ saving.todo = <<>>
    /\ saving' = NoSave
    /\ UNCHANGED <<db, world, input_file, synced, run, q, rq>>

\* Another request reads a folder and its units, wherever save() is.
Read ==
    /\ \E pk \in 1..Len(vfolders) :
           q' = [op |-> "read", pk |-> pk, vfolder |-> vfolders[pk],
                 units |-> vf_units[pk], saving |-> saving]
    /\ q' # q
    /\ UNCHANGED <<db, world, input_file, synced, run, rq, saving>>

NextSave == SaveWrite \/ SaveClear \/ SaveAdd \/ SaveReturn \/ Read

SpecSave == InitSave /\ [][NextSave]_vars

(***************************************************************************)
(* pootle/checks.py: test_redis, the check registered with Django          *)
(***************************************************************************)

\* Workers registered with the queue.
MaxWorkers == 3

\* connection_kwargs of a connection through a Unix socket: no host, no port.
UnixSettings == [path |-> "/var/run/redis.sock"]

ConnSettings == {TcpSettings, UnixSettings}

\* get_queue(): the queue of the settings, or the exception it raises when
\* the settings give none.
get_queue(jobs) ==
    IF jobs.configured
    THEN [exc |-> "none",
          queue |-> [connection |->
                        [connection_pool |->
                            [connection_kwargs |-> jobs.conn_settings]]]]
    ELSE [exc |-> "ImproperlyConfigured"]

\* Worker.all(queue.connection): the registered workers, or the exception
\* of a connection that cannot be made.
Worker_all(jobs) ==
    IF jobs.up THEN [exc |-> "none", workers |-> jobs.workers]
    ELSE [exc |-> "ConnectionError"]

\* checks.Critical(..., id="pootle.E001")
Critical(e, conn_settings) ==
    [level |-> "CRITICAL", id |-> "pootle.E001",
     msg |-> "Could not connect to Redis (" \o e \o ")",
     hint |-> "Make sure Redis is running on " \o conn_settings.host
              \o ":" \o conn_settings.port]

\* checks.Warning(..., id="pootle.E002")
Warning ==
    [level |-> "WARNING", id |-> "pootle.E002",
     msg |-> "No RQ Worker running.",
     hint |-> "Run new workers with manage.py rqworker"]

\* test_redis: [exc, errors]. The except clause reads queue.connection: when
\* get_queue() raised, queue was never bound and the read raises
\* UnboundLocalError; the hint is formatted from the 'host' and 'port' keys
\* of the connection settings and raises KeyError when they are not there.
test_redis(jobs) ==
    LET got == get_queue(jobs)
        listed == Worker_all(jobs)
    IN  IF got.exc # "none"
        THEN [exc |-> "UnboundLocalError", errors |-> <<>>]
        ELSE IF listed.exc # "none"
        THEN LET conn_settings ==
                     got.queue.connection.connection_pool.connection_kwargs
             IN  IF {"host", "port"} \subseteq DOMAIN conn_settings
                 THEN [exc |-> "none",
                       errors |-> <<Critical(listed.exc, conn_settings)>>]
                 ELSE [exc |-> "KeyError", errors |-> <<>>]
        ELSE IF Len(listed.workers) = 0 \/ listed.workers[1].stopped
        THEN [exc |-> "none", errors |-> <<Warning>>]
        ELSE [exc |-> "none", errors |-> <<>>]

RemoveAt(seq, i) == SubSeq(seq, 1, i - 1) \o SubSeq(seq, i + 1, Len(seq))

InitCheck ==
    /\ vfolders = <<>>
    /\ vf_units = <<>>
    /\ languages = <<>>
    /\ projects = <<>>
    /\ stores = {}
    /\ input_file = [kind |-> "missing", entries |-> <<>>]
    /\ synced = FALSE
    /\ run = NoRun
    /\ q = NoQuery
    /\ rq = IdleQueue
    /\ saving = NoSave

\* manage.py check: Django calls the registered check.
TestRedis ==
    /\ \E r \in {test_redis(rq)} :
           q' = [op |-> "test_redis", exc |-> r.exc, errors |-> r.errors]
    /\ UNCHANGED <<db, world, input_file, synced, run, rq, saving>>

\* The settings are edited: the queue is there or not, over TCP or a socket.
Reconfigure ==
    /\ \E c \in BOOLEAN, cs \in ConnSettings :
           /\ rq' = [rq EXCEPT !.configured = c, !.conn_settings = cs]
           /\ rq' # rq
    /\ q' = NoQuery
    /\ UNCHANGED <<db, world, input_file, synced, run, saving>>

\* Redis goes away, or comes back.
RedisStops ==
    /\ rq.up
    /\ rq' = [rq EXCEPT !.up = FALSE]
    /\ q' = NoQuery
    /\ UNCHANGED <<db, world, input_file, synced, run, saving>>

RedisStarts ==
    /\ ~rq.up
    /\ rq' = [rq EXCEPT !.up = TRUE]
    /\ q' = NoQuery
    /\ UNCHANGED <<db, world, input_file, synced, run, saving>>

\* manage.py rqworker: one more worker registers.
WorkerStarts ==
    /\ Len(rq.workers) < MaxWorkers
    /\ rq' = [rq EXCEPT !.workers = Append(@, [stopped |-> FALSE])]
    /\ q' = NoQuery
    /\ UNCHANGED <<db, world, input_file, synced, run, saving>>

\* A worker is asked to stop: it stays registered, stopped.
WorkerStops ==
    /\ \E i \in 1..Len(rq.workers) :
           /\ ~rq.workers[i].stopped
           /\ rq' = [rq EXCEPT !.workers[i].stopped = TRUE]
    /\ q' = NoQuery
    /\ UNCHANGED <<db, world, input_file, synced, run, saving>>

\* A worker exits and is no longer registered.
WorkerLeaves ==
    /\ \E i \in 1..Len(rq.workers) :
           rq' = [rq EXCEPT !.workers = RemoveAt(@, i)]
    /\ q' = NoQuery
    /\ UNCHANGED <<db, world, input_file, synced, run, saving>>

NextCheck ==
    \/ TestRedis \/ Reconfigure \/ RedisStops \/ RedisStarts
    \/ WorkerStarts \/ WorkerStops \/ WorkerLeaves

SpecCheck == InitCheck /\ [][NextCheck]_vars

(***************************************************************************)
(* Properties of the importer and of save()                                *)
(***************************************************************************)

Range(seq) == {seq[i] : i \in 1..Len(seq)}

\* The units the stores at (expanded location + filter-rule filename) hold.
UnitsUnderLocations(vf) ==
    {u \in UNION {s.units : s \in stores} :
        \E s \in stores, location \in Range(get_all_pootle_paths(vf)),
           filename \in Range(split(vf.filter_rules, ",")) :
            /\ s.pootle_path = location \o filename
            /\ u \in s.units}

\* C1: once save() has completed, a browsable folder is associated with
\* exactly the units of the existing stores at an expanded location followed
\* by a filter-rule filename, and a folder that is not browsable with none,
\* whatever was associated before.
C1_SaveRebuildsUnits ==
    \A pk \in 1..Len(vfolders) :
        vf_units[pk] = IF vfolders[pk].is_browsable
                       THEN UnitsUnderLocations(vfolders[pk]) ELSE {}

\* C1 witness: a browsable folder whose filter rules an update narrowed to
\* file1.po (it was created with file1.po,file2.po and their units) holds
\* the units of /en/firefox/file1.po alone.
C1_Witness ==
    /\ run.ran /\ run.updated_count >= 1
    /\ \E pk \in 1..Len(vfolders) :
           /\ vfolders[pk].is_browsable
           /\ vfolders[pk].filter_rules = "file1.po"
           /\ vf_units[pk] = {1, 2}
           /\ [what |-> "filter_rules", name |-> vfolders[pk].name] \in Range(run.log)

ValidEntry(e) == HasKey(e, "name") /\ HasKey(e, "location")

SameKey(e1, e2) == lower(e1.name) = lower(e2.name) /\ e1.location = e2.location

OptionalKeys == {"priority", "is_browsable", "description"}

\* Two entries for the same folder that ask for the same thing: the same
\* files, and the same value for every optional key both give.
Agree(e1, e2) ==
    /\ (IF HasKey(e1, "files") THEN join(",", e1.files) ELSE "")
         = (IF HasKey(e2, "files") THEN join(",", e2.files) ELSE "")
    /\ \A k \in OptionalKeys : (HasKey(e1, k) /\ HasKey(e2, k)) => e1[k] = e2[k]

ConsistentFile(entries) ==
    \A i, j \in 1..Len(entries) :
        (ValidEntry(entries[i]) /\ ValidEntry(entries[j])
         /\ SameKey(entries[i], entries[j])) => Agree(entries[i], entries[j])

\* C5 as claimed: a run on the file a completed run has just processed,
\* unchanged, adds nothing and updates nothing.
C5_Original ==
    (run.ran /\ run.rerun) =>
        /\ run.reported
        /\ run.added_count = 0
        /\ run.updated_count = 0

\* C5 amended: a run on the file a completed run has just processed,
\* unchanged, adds nothing and updates nothing, and counts every entry as
\* unchanged, provided the entries of the file that name the same
\* (lower-cased name, location) agree on the files and on every optional key
\* they both give.
C5_RerunIdempotent ==
    (run.ran /\ run.rerun /\ ConsistentFile(input_file.entries)) =>
        /\ run.reported
        /\ run.added_count = 0
        /\ run.updated_count = 0
        /\ run.unchanged_count = Len(input_file.entries)
        /\ run.log = <<>>

\* C5 witness: the second run in a row on a file with two agreeing entries
\* for one folder.
C5_Witness ==
    /\ run.ran /\ run.rerun
    /\ ConsistentFile(input_file.entries)
    /\ Len(input_file.entries) >= 2
    /\ SameKey(input_file.entries[1], input_file.entries[2])
    /\ Len(vfolders) >= 1

RowsFor(e) ==
    {pk \in 1..Len(vfolders) :
        vfolders[pk].name = lower(e.name) /\ vfolders[pk].location = e.location}

EntryFilterRules(e) == IF HasKey(e, "files") THEN join(",", e.files) ELSE ""

\* The entry asks for what the stored row already has.
SameAsStored(row, e) ==
    /\ EntryFilterRules(e) = row.filter_rules
    /\ HasKey(e, "priority") => e.priority = row.priority
    /\ HasKey(e, "is_browsable") => e.is_browsable = row.is_browsable
    /\ HasKey(e, "description") => e.description = row.description

\* The entry differs from the stored row in its priority and in nothing else.
DiffersOnlyInPriority(row, e) ==
    /\ EntryFilterRules(e) = row.filter_rules
    /\ HasKey(e, "priority") /\ e.priority # row.priority
    /\ HasKey(e, "is_browsable") => e.is_browsable = row.is_browsable
    /\ HasKey(e, "description") => e.description = row.description

\* Every entry of the file has its folder stored, entry i differs from it
\* only in priority and the other entries ask for what is stored.
PriorityOnlyInput(i) ==
    /\ input_file.kind = "json"
    /\ i \in 1..Len(input_file.entries)
    /\ \A j \in 1..Len(input_file.entries) :
           LET e == input_file.entries[j]
           IN  /\ ValidEntry(e)
               /\ RowsFor(e) # {}
               /\ \A pk \in RowsFor(e) :
                      IF j = i THEN DiffersOnlyInPriority(vfolders[pk], e)
                      ELSE SameAsStored(vfolders[pk], e)

\* The run updated one folder, added none, and the folder of entry i now
\* has the entry's priority and the filter rules and description it had.
PriorityUpdated(i) ==
    /\ run'.reported
    /\ run'.updated_count = 1
    /\ run'.added_count = 0
    /\ \A pk \in RowsFor(input_file.entries[i]) :
           /\ vfolders'[pk].priority = input_file.entries[i].priority
           /\ vfolders'[pk].filter_rules = vfolders[pk].filter_rules
           /\ vfolders'[pk].description = vfolders[pk].description

\* A step of the command (the only step that leaves the file as it is).
IsRun == input_file' = input_file /\ run'.ran

\* C6 as claimed: when the input differs from what is stored only in one
\* entry's priority, the run reports one update and no addition, stores the
\* new priority and leaves filter rules and description as they were.
C6_Original ==
    [][\A i \in 1..MaxEntries + 1 : (IsRun /\ PriorityOnlyInput(i)) => PriorityUpdated(i)]_vars

\* C6 amended: the same, provided no other entry of the file names the
\* (lower-cased name, location) of the entry whose priority differs.
C6_PriorityOnlyUpdate ==
    [][\A i \in 1..MaxEntries + 1 :
          (/\ IsRun
           /\ PriorityOnlyInput(i)
           /\ \A j \in 1..Len(input_file.entries) :
                  j # i => ~SameKey(input_file.entries[j], input_file.entries[i]))
          => PriorityUpdated(i)]_vars

\* C6 witness: a run that reported one update and no addition and logged a
\* priority change and no other change.
C6_Witness ==
    /\ run.ran /\ run.reported
    /\ run.updated_count = 1 /\ run.added_count = 0
    /\ run.log = <<[what |-> "priority", name |-> "vf"]>>
    /\ \E pk \in 1..Len(vfolders) :
           /\ vfolders[pk].priority = 2
           /\ vfolders[pk].description = "d"
           /\ vfolders[pk].filter_rules = "file1.po,file2.po"

\* C7: no two stored folders have the same (name, location), and every
\* stored name is lower-cased.
C7_UniqueNameLocation ==
    /\ \A i, j \in 1..Len(vfolders) :
           (vfolders[i].name = vfolders[j].name
            /\ vfolders[i].location = vfolders[j].location) => i = j
    /\ \A i \in 1..Len(vfolders) : vfolders[i].name = lower(vfolders[i].name)

\* C7 witness: a completed run on a file that names one folder twice, once
\* as "vf" and once as "Vf".
C7_Witness ==
    /\ run.ran /\ run.reported
    /\ Len(input_file.entries) >= 2
    /\ input_file.entries[1].name # input_file.entries[2].name
    /\ SameKey(input_file.entries[1], input_file.entries[2])
    /\ Len(vfolders) >= 1

\* C10 as claimed: a run on a file that is missing or is not JSON ends with
\* CommandError carrying the description of the underlying error, and
\* leaves the folders as they were.
C10_FileErrorIsCommandError ==
    (run.ran /\ input_file.kind # "json") =>
        /\ run.exc = "CommandError"
        /\ run.message # ""
        /\ ~run.reported

\* Entry k is the first of the file that lacks 'name' or 'location'.
FirstMalformed(k) ==
    /\ input_file.kind = "json"
    /\ k \in 1..Len(input_file.entries)
    /\ ~ValidEntry(input_file.entries[k])
    /\ \A j \in 1..(k - 1) : ValidEntry(input_file.entries[j])

\* The (name, location) pairs entries 1..k-1 of the file name.
KeysBefore(k) ==
    {<<lower(input_file.entries[j].name), input_file.entries[j].location>> :
        j \in 1..(k - 1)}

StoredKeys == {<<vfolders[pk].name, vfolders[pk].location>> : pk \in 1..Len(vfolders)}

\* C11: when entry k is the first entry that lacks 'name' or 'location',
\* the run ends at entry k with an uncaught KeyError and reports no counts;
\* the folders are left as a run on entries 1..k-1 alone leaves them: one
\* row inserted per new (name, location) of entries 1..k-1, and every folder
\* that entries 1..k-1 do not name exactly as it was.
C11_MalformedEntryAborts ==
    [][\A k \in 1..MaxEntries + 1 :
          (IsRun /\ FirstMalformed(k)) =>
              /\ run'.exc = "KeyError"
              /\ ~run'.reported
              /\ run'.added_count = 0 /\ run'.updated_count = 0
              /\ run'.unchanged_count = 0
              /\ \E r \in {handle([kind |-> "json",
                                    entries |-> SubSeq(input_file.entries, 1, k - 1)],
                                   [rows |-> vfolders, units |-> vf_units])} :
                     /\ r.exc = "none"
                     /\ vfolders' = r.rows
                     /\ vf_units' = r.units
              /\ Len(vfolders') = Len(vfolders) + Cardinality(KeysBefore(k) \ StoredKeys)
              /\ \A pk \in 1..Len(vfolders) :
                     <<vfolders[pk].name, vfolders[pk].location>> \notin KeysBefore(k)
                         => /\ vfolders'[pk] = vfolders[pk]
                            /\ vf_units'[pk] = vf_units[pk]]_vars

\* C11 witness: a run that ended with KeyError at the second entry of the
\* file after it had stored the folder of the first.
C11_Witness ==
    /\ run.ran /\ run.exc = "KeyError" /\ ~run.reported
    /\ Len(input_file.entries) = 2
    /\ ValidEntry(input_file.entries[1])
    /\ ~ValidEntry(input_file.entries[2])
    /\ RowsFor(input_file.entries[1]) # {}
(***************************************************************************)
(* Properties of the pattern builder and of the folder matcher             *)
(***************************************************************************)

\* The pattern consumes the whole of s.
FullMatch(p, s) == (Len(s) + 1) \in ReMatchEnds(p, s)

\* C2: get_applicable_for(path) returns, each once, exactly the stored
\* folders that are browsable and whose location pattern_for_path(path)
\* matches in full.
C2_ApplicableFolders ==
    q.op = "get_applicable_for" =>
        /\ Range(q.result) =
               {pk \in 1..Len(vfolders) :
                   /\ vfolders[pk].is_browsable
                   /\ FullMatch(pattern_for_path(q.pootle_path), vfolders[pk].location)}
        /\ Len(q.result) = Cardinality(Range(q.result))

\* C2 witness: a query that returned a folder, left out a folder that is not
\* browsable though its location matches, and left out a browsable folder
\* whose location goes deeper than the path.
C2_Witness ==
    /\ q.op = "get_applicable_for"
    /\ q.result # <<>>
    /\ \E pk \in 1..Len(vfolders) :
           /\ ~vfolders[pk].is_browsable
           /\ FullMatch(pattern_for_path(q.pootle_path), vfolders[pk].location)
           /\ pk \notin Range(q.result)
    /\ \E pk \in 1..Len(vfolders) :
           /\ vfolders[pk].is_browsable
           /\ startswith(vfolders[pk].location, q.pootle_path)
           /\ vfolders[pk].location # q.pootle_path
           /\ pk \notin Range(q.result)

\* The rule of C3 for the path '/s1/.../sn/' and the location '/t1/.../tk/'.
SegmentRule(pootle_path, location) ==
    LET sg == split(strip(pootle_path, "/"), "/")
        t == split(strip(location, "/"), "/")
    IN  /\ location = PathOf(t)
        /\ Len(t) >= 1 /\ Len(t) <= Len(sg)
        /\ t[1] \in {sg[1], "{LANG}", "projects"}
        /\ Len(t) >= 2 => t[2] \in {sg[2], "{PROJ}"}
        /\ \A i \in 3..Len(t) : t[i] = sg[i]

\* C3 as claimed: the pattern of a path matches a location exactly when the
\* location has at most as many segments as the path, its first segment is
\* the path's, {LANG} or projects, its second the path's or {PROJ}, and every
\* further segment the path's.
C3_PatternMatchesBySegments ==
    q.op = "pattern_match" =>
        (q.matched <=> SegmentRule(q.pootle_path, q.location))

\* C3, for the paths whose segments hold no character the regular expression
\* reads as an operator: there the rule is what the pattern matches.
C3_PlainSegments ==
    (q.op = "pattern_match" /\ ~contains(q.pootle_path, ".")) =>
        (q.matched <=> SegmentRule(q.pootle_path, q.location))

\* The examples of C3.
C3_Examples ==
    /\ \A l \in {"/gl/firefox/browser/chrome/", "/gl/firefox/browser/", "/gl/firefox/",
                 "/gl/", "/{LANG}/{PROJ}/browser/chrome/"} :
           re_match(pattern_for_path("/gl/firefox/browser/chrome/"), l)
    /\ ~re_match(pattern_for_path("/gl/firefox/browser/chrome/"),
                 "/fr/firefox/browser/chrome/")
    /\ \A l \in {"/gl/", "/{LANG}/", "/projects/"} : re_match(pattern_for_path("/gl/"), l)

\* The folders get_applicable_for gives for the path of the last query.
ApplicablePks ==
    {pk \in 1..Len(vfolders) :
        /\ vfolders[pk].is_browsable
        /\ re_match(pattern_for_path(q.pootle_path), vfolders[pk].location)}

\* A filename of the folder's filter rules, joined to its adjusted location,
\* starts with the path and is the path of an existing store.
SomeFileMatches(pk) ==
    \E filename \in Range(split(vfolders[pk].filter_rules, ",")) :
        \E vf_file \in {get_adjusted_location(vfolders[pk], q.pootle_path).value
                           \o "/" \o filename} :
            /\ startswith(vf_file, q.pootle_path)
            /\ \E s \in stores : s.pootle_path = vf_file

\* C4 as claimed: get_matching_for(path) returns, each once, exactly the
\* applicable folders one of whose filter-rule filenames, joined to the
\* adjusted location, starts with the path and is an existing store.
C4_MatchingFolders ==
    q.op = "get_matching_for" =>
        /\ q.exc = "none"
        /\ Range(q.result) = {pk \in ApplicablePks : SomeFileMatches(pk)}
        /\ Len(q.result) = Cardinality(Range(q.result))

\* C4 where get_matching_for returns at all.
C4_WhenItReturns ==
    (q.op = "get_matching_for" /\ q.exc = "none") =>
        /\ Range(q.result) = {pk \in ApplicablePks : SomeFileMatches(pk)}
        /\ Len(q.result) = Cardinality(Range(q.result))

\* C16 as claimed: get_matching_for(path) never raises: for every folder
\* get_applicable_for(path) returns, a folder at /projects/... included,
\* get_adjusted_location(path) returns a location.
C16_NoApplicabilityError ==
    q.op = "get_matching_for" =>
        /\ \A pk \in ApplicablePks :
               get_adjusted_location(vfolders[pk], q.pootle_path).exc = "none"
        /\ q.exc # "Exception"

\* The location with {LANG} and {PROJ} segments replaced by the codes.
Substituted(location, lang, proj) ==
    LET t == split(strip(location, "/"), "/")
    IN  PathOf([i \in 1..Len(t) |->
                   IF t[i] = "{LANG}" THEN lang
                   ELSE IF t[i] = "{PROJ}" THEN proj ELSE t[i]])

\* C8: get_all_pootle_paths gives, for a location with both placeholders,
\* one substituted location per (language, project), languages outermost,
\* with no placeholder left; with {LANG} alone one per language; with {PROJ}
\* alone one per project; with neither the location itself.
C8_Expansion ==
    q.op = "get_all_pootle_paths" =>
        LET location == vfolders[q.pk].location
            N == Len(languages)
            M == Len(projects)
            hasLang == contains(location, "{LANG}")
            hasProj == contains(location, "{PROJ}")
        IN  /\ (hasLang /\ hasProj) =>
                   /\ Len(q.result) = N * M
                   /\ \A l \in 1..N, p \in 1..M :
                          q.result[(l - 1) * M + p]
                              = Substituted(location, languages[l], projects[p])
                   /\ \A i \in 1..Len(q.result) :
                          /\ ~contains(q.result[i], "{LANG}")
                          /\ ~contains(q.result[i], "{PROJ}")
            /\ (hasLang /\ ~hasProj) =>
                   /\ Len(q.result) = N
                   /\ \A l \in 1..N :
                          q.result[l] = Substituted(location, languages[l], "")
            /\ (~hasLang /\ hasProj) =>
                   /\ Len(q.result) = M
                   /\ \A p \in 1..M :
                          q.result[p] = Substituted(location, "", projects[p])
            /\ (~hasLang /\ ~hasProj) => q.result = <<location>>

\* C8 witness: a location with both placeholders expanded over at least two
\* languages and two projects.
C8_Witness ==
    /\ q.op = "get_all_pootle_paths"
    /\ contains(vfolders[q.pk].location, "{LANG}")
    /\ contains(vfolders[q.pk].location, "{PROJ}")
    /\ Len(languages) >= 2 /\ Len(projects) >= 2
    /\ Len(q.result) = Len(languages) * Len(projects)

\* The position of the k-th "/" of s.
NthSlash(s, k) ==
    CHOOSE i \in 1..Len(s) :
        /\ CharAt(s, i) = "/"
        /\ count(StrTake(s, i), "/") = k

\* C9: get_adjusted_location raises whenever the path has fewer slashes than
\* the location; when it returns, it returns the path cut before its k-th
\* slash, k being the number of slashes of the location: a prefix of the
\* path that ends with no slash.
C9_AdjustedLocation ==
    q.op = "get_adjusted_location" =>
        /\ count(q.pootle_path, "/") < count(q.location, "/") => q.exc = "Exception"
        /\ q.exc = "none" =>
               /\ q.value = StrTake(q.pootle_path,
                                    NthSlash(q.pootle_path, count(q.location, "/")) - 1)
               /\ startswith(q.pootle_path, q.value)
               /\ CharAt(q.value, Len(q.value)) # "/"

\* C9 witness: a location deeper than the path whose first two segments are
\* the path's, so that only the slash count stands against it.
C9_Witness ==
    /\ q.op = "get_adjusted_location"
    /\ q.exc = "Exception"
    /\ count(q.pootle_path, "/") < count(q.location, "/")
    /\ count(q.pootle_path, "/") >= 3
    /\ startswith(q.location, q.pootle_path)

\* The segments of a path or location: what is between its slashes.
Segments(path) == split(strip(path, "/"), "/")

\* Nothing but the second segment stands against the location: the path
\* has as many slashes and the first segments agree.
FirstSegmentFits ==
    /\ count(q.pootle_path, "/") >= count(q.location, "/")
    /\ Segments(q.location)[1] \in {Segments(q.pootle_path)[1], "{LANG}"}

ConnectionFails == ~rq.configured \/ ~rq.up

SomeWorkerActive == \E i \in 1..Len(rq.workers) : ~rq.workers[i].stopped

OneDiagnostic(errors, level, id) ==
    Len(errors) = 1 /\ errors[1].level = level /\ errors[1].id = id

\* C12 as claimed: the check returns one Critical pootle.E001 when obtaining
\* the queue or listing its workers fails, one Warning pootle.E002 when the
\* connection succeeds and no worker is active, and an empty list when the
\* connection succeeds and a worker is active.
C12_HealthCheckDiagnostics ==
    q.op = "test_redis" =>
        /\ q.exc = "none"
        /\ ConnectionFails => OneDiagnostic(q.errors, "CRITICAL", "pootle.E001")
        /\ (~ConnectionFails /\ ~SomeWorkerActive)
               => OneDiagnostic(q.errors, "WARNING", "pootle.E002")
        /\ (~ConnectionFails /\ SomeWorkerActive) => q.errors = <<>>

\* C13 as claimed: the check returns its list and never raises, whatever
\* fails in the job queue, get_queue() included.
C13_HealthCheckNeverRaises ==
    q.op = "test_redis" => q.exc = "none"


(***************************************************************************)
(* Properties of save() beside a reader                                    *)
(***************************************************************************)

\* The units the passes of the loop made so far have added: those of the
\* stores at the vf_file values that are no longer to do.
AddedSoFar(sv) ==
    UNION {FirstStoreUnits(VfFiles(sv.self)[i]) :
              i \in 1..(Len(VfFiles(sv.self)) - Len(sv.todo))}

\* C15: save() writes the row, clears the units and adds the units again as
\* separate steps, and a reader sees each step: once the row is written it
\* reads the row as saved, with the units of before the save until the clear,
\* with no units after the clear, and then with the units added so far;
\* when no save is in progress every folder has the units of its stores.
C15_SaveStepsAreVisible ==
    /\ (q.op = "read" /\ q.saving.pc # "done" /\ q.pk = q.saving.pk) =>
           /\ q.vfolder = q.saving.self
           /\ q.saving.pc = "clear" => q.units = q.saving.before
           /\ q.saving.pc = "rebuild" => q.units = AddedSoFar(q.saving)
           /\ (q.saving.pc = "rebuild" /\ q.saving.todo = VfFiles(q.saving.self))
                  => q.units = {}
    /\ saving.pc = "done" =>
           \A pk \in 1..Len(vfolders) :
               vf_units[pk] = IF vfolders[pk].is_browsable
                              THEN UnitsUnderLocations(vfolders[pk]) ELSE {}

\* C15 witness: a reader that read, during the save of a browsable folder
\* that had units and has units again once save() returned, the row as saved
\* with no unit at all.
C15_Witness ==
    /\ q.op = "read"
    /\ q.saving.pc = "rebuild"
    /\ q.pk = q.saving.pk
    /\ q.vfolder = q.saving.self
    /\ q.vfolder.is_browsable
    /\ q.saving.before # {}
    /\ q.units = {}
    /\ saving.pc = "done"
    /\ vfolders[q.pk] = q.vfolder
    /\ vf_units[q.pk] # {}

====
